---- MODULE Spec2Model ----
(***************************************************************************)
(* Model of the synthetic sales generator (src/generate_sales_data.py):    *)
(* the per-day loop, the per-transaction sampling and record assembly, the *)
(* four aggregation passes, and the seeded random stream they consume.     *)
(*                                                                         *)
(* Numbers.  Python floats are modelled as fixed-point integers ("ticks"): *)
(* one unit is Scale ticks, so one cent is 100 ticks and two further       *)
(* decimals are kept below the cent.  Every float operation is the exact   *)
(* result rounded to the nearest tick.  round(x, 2) is rounding to the     *)
(* nearest multiple of 100 ticks, ties to the even cent.                   *)
(*                                                                         *)
(* Strings.  A formatted string is the sequence of its characters.         *)
(***************************************************************************)
EXTENDS Integers, Sequences, FiniteSets, TLC

\* ------------------------------------------------------------------ bounds

\* The modelled prefix of the date range (the program runs 1096 days).
NumDays == 2

\* The largest outcome of a Poisson draw the model enumerates (0..MaxPoisson).
MaxPoisson == 2

\* ------------------------------------------------------- float arithmetic

\* Ticks per unit: cents (the 2 decimals of round(x, 2)) times 100.
Scale == 100 * 100

Abs(x) == IF x < 0 THEN -x ELSE x

Sign(x) == IF x < 0 THEN -1 ELSE 1

Max(a, b) == IF a >= b THEN a ELSE b

Min(a, b) == IF a <= b THEN a ELSE b

\* <<q, r>> with r * m = q * d + r', 0 <= r' < d, computed by doubling so that
\* no intermediate value exceeds 3 * d (TLC integers are 32 bits wide).
RECURSIVE QuotRem(_, _, _)
QuotRem(r, m, d) ==
    IF m = 0 THEN <<0, 0>>
    ELSE LET h  == QuotRem(r, m \div 2, d)
             r2 == 2 * h[2] + (IF m % 2 = 1 THEN r ELSE 0)
         IN  <<2 * h[1] + (r2 \div d), r2 % d>>

\* a * b / d for a, b >= 0 and d > 0, rounded to the nearest integer.
MulDiv(a, b, d) ==
    LET qr == QuotRem(a % d, b, d)
    IN  (a \div d) * b + qr[1] + (IF 2 * qr[2] >= d THEN 1 ELSE 0)

\* The float product x * y of two fixed-point values (either sign).
MulFx(x, y) == Sign(x) * Sign(y) * MulDiv(Abs(x), Abs(y), Scale)

\* round(x, 2): nearest multiple of 100 ticks, ties to the even cent.
Round2(x) ==
    LET a == Abs(x)
        c == a \div 100
        f == a % 100
        up == f > 50 \/ (f = 50 /\ c % 2 = 1)
    IN  Sign(x) * 100 * (IF up THEN c + 1 ELSE c)

\* ------------------------------------------------------ program constants

products ==
    <<"Laptop", "Desktop", "Monitor", "Keyboard", "Mouse", "Printer", "Scanner", "Tablet">>

categories == <<"Electronics", "Accessories", "Peripherals">>

regions == <<"North America", "Europe", "Asia Pacific", "South America", "Africa">>

sales_reps ==
    <<"John Smith", "Sarah Johnson", "Mike Wilson", "Lisa Brown", "Tom Davis",
      "Maria Garcia", "David Chen", "Emma Thompson", "Carlos Rodriguez", "Anna Petrov">>

\* range(1, 1001): the customer numbers.
NumCustomers == 1000

\* Base prices, in whole currency units.
base_prices ==
    [Laptop |-> 800, Desktop |-> 600, Monitor |-> 300, Keyboard |-> 50,
     Mouse |-> 25, Printer |-> 150, Scanner |-> 200, Tablet |-> 400]

product_categories ==
    [Laptop |-> "Electronics", Desktop |-> "Electronics", Monitor |-> "Electronics",
     Tablet |-> "Electronics", Keyboard |-> "Accessories", Mouse |-> "Accessories",
     Printer |-> "Peripherals", Scanner |-> "Peripherals"]

\* The multipliers below are in ticks (1.2 is 12000).
region_multipliers ==
    ("North America" :> 12000) @@ ("Europe" :> 11000) @@ ("Asia Pacific" :> 9000)
    @@ ("South America" :> 8000) @@ ("Africa" :> 7000)

rep_performance ==
    ("John Smith" :> 11500) @@ ("Sarah Johnson" :> 11200) @@ ("Mike Wilson" :> 10800)
    @@ ("Lisa Brown" :> 10500) @@ ("Tom Davis" :> 10300) @@ ("Maria Garcia" :> 11000)
    @@ ("David Chen" :> 10700) @@ ("Emma Thompson" :> 10600)
    @@ ("Carlos Rodriguez" :> 10400) @@ ("Anna Petrov" :> 10900)

\* (min_days, max_days) of the delivery time per region.
region_delivery_days ==
    ("North America" :> <<1, 5>>) @@ ("Europe" :> <<3, 8>>) @@ ("Asia Pacific" :> <<5, 12>>)
    @@ ("South America" :> <<7, 15>>) @@ ("Africa" :> <<10, 20>>)

\* tax_rate = 0.08 if region == 'North America' else 0.15, in ticks.
TaxRate(region) == IF region = "North America" THEN 800 ELSE 1500

\* The range of np.random.uniform for the shipping cost, in ticks: [lo, hi).
ShippingRange(region) ==
    IF region /= "North America" THEN <<5 * Scale, 25 * Scale>> ELSE <<2 * Scale, 10 * Scale>>

\* np.random.seed(42)
Seed == 42

\* ---------------------------------------------------------------- strings

DigitChar(d) == <<"0", "1", "2", "3", "4", "5", "6", "7", "8", "9">>[d + 1]

\* str(n) for n >= 0, as a sequence of characters.
RECURSIVE Digits(_)
Digits(n) == IF n < 10 THEN <<DigitChar(n)>> ELSE Append(Digits(n \div 10), DigitChar(n % 10))

\* f'{n:0{w}d}': zero-padded to at least w characters, never truncated.
RECURSIVE ZeroPad(_, _)
ZeroPad(s, w) == IF Len(s) >= w THEN s ELSE ZeroPad(<<"0">> \o s, w)

\* f'ORD_{order_id:06d}'
FormatOrderId(n) == <<"O", "R", "D", "_">> \o ZeroPad(Digits(n), 6)

\* f'CUST_{i:05d}'
FormatCustomerId(i) == <<"C", "U", "S", "T", "_">> \o ZeroPad(Digits(i), 5)

\* ------------------------------------------------------------------ dates

IsLeap(y) == (y % 4 = 0 /\ y % 100 /= 0) \/ y % 400 = 0

DaysInMonth(y, m) ==
    IF m = 2 THEN (IF IsLeap(y) THEN 29 ELSE 28)
    ELSE IF m \in {4, 6, 9, 11} THEN 30 ELSE 31

DaysInYear(y) == IF IsLeap(y) THEN 366 ELSE 365

\* start_date = datetime(2022, 1, 1), a Saturday (weekday() = 5).
start_date == [year |-> 2022, month |-> 1, day |-> 1]

\* end_date = datetime(2024, 12, 31)
end_date == [year |-> 2024, month |-> 12, day |-> 31]

\* date + timedelta(days=1)
NextDate(d) ==
    IF d.day < DaysInMonth(d.year, d.month) THEN [d EXCEPT !.day = @ + 1]
    ELSE IF d.month < 12 THEN [d EXCEPT !.month = @ + 1, !.day = 1]
    ELSE [year |-> d.year + 1, month |-> 1, day |-> 1]

\* The days of year y before month m.
RECURSIVE DaysBeforeMonth(_, _)
DaysBeforeMonth(y, m) ==
    IF m = 1 THEN 0 ELSE DaysBeforeMonth(y, m - 1) + DaysInMonth(y, m - 1)

\* date.timetuple().tm_yday
DayOfYear(d) == DaysBeforeMonth(d.year, d.month) + d.day

\* Days from 2022-01-01 to January 1 of year y (y >= 2022).
RECURSIVE YearStart(_)
YearStart(y) == IF y = start_date.year THEN 0 ELSE YearStart(y - 1) + DaysInYear(y - 1)

\* (date - start_date).days
DaysSinceStart(d) == YearStart(d.year) + DayOfYear(d) - 1

\* date.weekday(): Monday is 0.
Weekday(d) == (5 + DaysSinceStart(d)) % 7

\* weekday() of January 1 of year y, for y >= 2021.
Jan1Weekday(y) ==
    IF y >= start_date.year THEN (5 + YearStart(y)) % 7
    ELSE (5 + 7 * 53 - DaysInYear(y)) % 7

\* An ISO year has 53 weeks when it starts on a Thursday, or on a Wednesday
\* and is a leap year.
WeeksInYear(y) ==
    IF Jan1Weekday(y) = 3 \/ (Jan1Weekday(y) = 2 /\ IsLeap(y)) THEN 53 ELSE 52

\* date.isocalendar()[1]
IsoWeek(d) ==
    LET w == (DayOfYear(d) - (Weekday(d) + 1) + 10) \div 7
    IN  IF w < 1 THEN WeeksInYear(d.year - 1)
        ELSE IF w > WeeksInYear(d.year) THEN 1
        ELSE w

\* pd.date_range(start_date, end_date, freq='D')[i - 1], for the modelled prefix.
RECURSIVE dates(_)
dates(i) == IF i = 1 THEN start_date ELSE NextDate(dates(i - 1))

\* date.strftime('%Y-%m-%d')
FormatDate(d) ==
    ZeroPad(Digits(d.year), 4) \o <<"-">> \o ZeroPad(Digits(d.month), 2)
    \o <<"-">> \o ZeroPad(Digits(d.day), 2)

\* date.strftime('%A')
DayName(d) ==
    <<"Monday", "Tuesday", "Wednesday", "Thursday", "Friday", "Saturday", "Sunday">>[Weekday(d) + 1]

\* f'Q{((date.month - 1) // 3) + 1}'
FormatQuarter(d) == <<"Q">> \o Digits(((d.month - 1) \div 3) + 1)

\* ------------------------------------------- one transaction (lines 73-162)

\* The outcome of a Python division: ZeroDivisionError, or the quotient.
Raised == [err |-> TRUE, val |-> 0]

Ok(v) == [err |-> FALSE, val |-> v]

\* (a / b) * 100 for b >= 0; a / 0 raises.
DivPct(a, b) ==
    IF b = 0 THEN Raised ELSE Ok(Sign(a) * MulDiv(Abs(a), 100 * Scale, b))

\* The category taken without regard to the product.
CategoryOfAny(product) == categories[1]

\* category = product_categories[product]
CategoryOf(product) == product_categories[product]

\* unit_price = base_price * region_multiplier * rep_factor * price_variation
UnitPrice(product, region, sales_rep, price_variation) ==
    MulFx(MulFx(MulFx(base_prices[product] * Scale, region_multipliers[region]),
                rep_performance[sales_rep]),
          price_variation)

\* The integer-division slip: revenue * (discount_percent // 100).
DiscountAmountFloorDiv(revenue, discount_percent) ==
    revenue * (discount_percent \div (100 * Scale))

\* discount_amount = revenue * (discount_percent / 100)
DiscountAmount(revenue, discount_percent) ==
    MulDiv(revenue, discount_percent, 100 * Scale)

\* The division without its guard.
FinalMarginUnguarded(final_profit, final_revenue) == DivPct(final_profit, final_revenue)

\* final_margin = (final_profit / final_revenue) * 100 if final_revenue > 0 else 0
FinalMargin(final_profit, final_revenue) ==
    IF final_revenue > 0 THEN DivPct(final_profit, final_revenue) ELSE Ok(0)

\* Lines 136-138: the final figures after the discount.
FinalFigures(revenue, cost, discount_amount) ==
    LET final_revenue == revenue - discount_amount
        final_profit  == final_revenue - cost
    IN  [final_revenue |-> final_revenue,
         final_profit  |-> final_profit,
         final_margin  |-> FinalMargin(final_profit, final_revenue)]

\* One flat rate for every region.
TaxAmountFlatRate(final_revenue, region) == MulFx(final_revenue, TaxRate("Europe"))

\* tax_amount = final_revenue * tax_rate
TaxAmount(final_revenue, region) == MulFx(final_revenue, TaxRate(region))

\* satisfaction_boost = (final_margin / 100) * 0.5 + (rep_factor - 1) * 2
SatisfactionBoost(final_margin, rep_factor) ==
    Sign(final_margin) * MulDiv(Abs(final_margin), 5000, 100 * Scale) + (rep_factor - Scale) * 2

\* The clamp applied before the noise is added.
CustomerSatisfactionNoiseLast(final_margin, rep_factor, noise) ==
    Min(5 * Scale, Max(1 * Scale, 35000 + SatisfactionBoost(final_margin, rep_factor))) + noise

\* customer_satisfaction = min(5.0, max(1.0, base_satisfaction + boost + noise))
CustomerSatisfaction(final_margin, rep_factor, noise) ==
    Min(5 * Scale, Max(1 * Scale, 35000 + SatisfactionBoost(final_margin, rep_factor) + noise))

\* return_probability = max(0.01, 0.15 - (customer_satisfaction - 3) * 0.03)
ReturnProbability(customer_satisfaction) ==
    Max(100, 1500 - MulFx(customer_satisfaction - 3 * Scale, 300))

\* The draws of one transaction, as np.random yields them: each in the range of
\* its call, the conditional ones (discount_percent) 0 when the call is not made.
ValidDraw(d) ==
    LET region == regions[d.region_i]
    IN  /\ d.product_i \in 1..Len(products)
        /\ d.region_i \in 1..Len(regions)
        /\ d.rep_i \in 1..Len(sales_reps)
        /\ d.customer_i \in 1..NumCustomers
        /\ d.price_variation >= 8500 /\ d.price_variation < 12500
        /\ d.bulk_u >= 0 /\ d.bulk_u < Scale
        /\ IF d.bulk_u < 1000 THEN d.quantity \in 5..19 ELSE d.quantity \in 1..3
        /\ d.cost_ratio >= 4000 /\ d.cost_ratio < 7000
        /\ d.discount_u >= 0 /\ d.discount_u < Scale
        /\ IF d.discount_u < 2000
           THEN d.discount_percent >= 5 * Scale /\ d.discount_percent < 25 * Scale
           ELSE d.discount_percent = 0
        /\ d.shipping_cost >= ShippingRange(region)[1]
        /\ d.shipping_cost < ShippingRange(region)[2]
        /\ d.delivery_days >= region_delivery_days[region][1]
        /\ d.delivery_days <= region_delivery_days[region][2]
        /\ d.return_u >= 0 /\ d.return_u < Scale

\* Lines 73-162: the values of one transaction, from its draws d.
Sale(d) ==
    LET product    == products[d.product_i]
        category   == CategoryOf(product)
        region     == regions[d.region_i]
        sales_rep  == sales_reps[d.rep_i]
        customer_id == FormatCustomerId(d.customer_i)
        rep_factor == rep_performance[sales_rep]
        unit_price == UnitPrice(product, region, sales_rep, d.price_variation)
        quantity   == d.quantity
        revenue    == unit_price * quantity
        cost       == MulFx(revenue, d.cost_ratio)
        profit     == revenue - cost
        profit_margin == DivPct(profit, revenue).val
        discount_percent == IF d.discount_u < 2000 THEN d.discount_percent ELSE 0
        discount_amount  == IF d.discount_u < 2000
                            THEN DiscountAmount(revenue, d.discount_percent) ELSE 0
        final      == FinalFigures(revenue, cost, discount_amount)
        final_margin == final.final_margin.val
        tax_amount == TaxAmount(final.final_revenue, region)
        customer_satisfaction == CustomerSatisfaction(final_margin, rep_factor, d.noise)
        is_returned == d.return_u < ReturnProbability(customer_satisfaction)
    IN  [product |-> product, category |-> category, region |-> region,
         sales_rep |-> sales_rep, customer_id |-> customer_id,
         quantity |-> quantity, unit_price |-> unit_price, revenue |-> revenue,
         cost |-> cost, profit |-> profit, profit_margin |-> profit_margin,
         discount_percent |-> discount_percent, discount_amount |-> discount_amount,
         final_revenue |-> final.final_revenue, final_profit |-> final.final_profit,
         final_margin |-> final_margin, shipping_cost |-> d.shipping_cost,
         tax_amount |-> tax_amount, customer_satisfaction |-> customer_satisfaction,
         delivery_days |-> d.delivery_days, is_returned |-> is_returned]

\* ------------------------------------------------ the record (lines 164-194)

\* The calendar columns without the last one.
CalendarColumnsShort(date) ==
    << <<"Year", date.year>>, <<"Month", date.month>>,
       <<"Quarter", FormatQuarter(date)>>, <<"Day_of_Week", DayName(date)>> >>

\* Lines 189-193: the columns that are functions of the date alone.
CalendarColumns(date) ==
    << <<"Year", date.year>>, <<"Month", date.month>>,
       <<"Quarter", FormatQuarter(date)>>, <<"Day_of_Week", DayName(date)>>,
       <<"Week_Number", IsoWeek(date)>> >>

\* The dict literal of lines 165-194: its (key, value) items in insertion order.
record(order_id, date, s) ==
    << <<"Order_ID", FormatOrderId(order_id)>>,
       <<"Date", FormatDate(date)>>,
       <<"Customer_ID", s.customer_id>>,
       <<"Product", s.product>>,
       <<"Category", s.category>>,
       <<"Region", s.region>>,
       <<"Sales_Rep", s.sales_rep>>,
       <<"Quantity", s.quantity>>,
       <<"Unit_Price", Round2(s.unit_price)>>,
       <<"Revenue", Round2(s.revenue)>>,
       <<"Cost", Round2(s.cost)>>,
       <<"Profit", Round2(s.profit)>>,
       <<"Profit_Margin", Round2(s.profit_margin)>>,
       <<"Discount_Percent", Round2(s.discount_percent)>>,
       <<"Discount_Amount", Round2(s.discount_amount)>>,
       <<"Final_Revenue", Round2(s.final_revenue)>>,
       <<"Final_Profit", Round2(s.final_profit)>>,
       <<"Final_Margin", Round2(s.final_margin)>>,
       <<"Shipping_Cost", Round2(s.shipping_cost)>>,
       <<"Tax_Amount", Round2(s.tax_amount)>>,
       <<"Customer_Satisfaction", Round2(s.customer_satisfaction)>>,
       <<"Delivery_Days", s.delivery_days>>,
       <<"Is_Returned", s.is_returned>> >>
    \o CalendarColumns(date)

\* row[key] of a dict given as its items.
Get(row, key) == row[CHOOSE i \in 1..Len(row) : row[i][1] = key][2]

\* list(row.keys())
Keys(row) == [i \in 1..Len(row) |-> row[i][1]]

\* ------------------------------------------------------ enumerated draws

Draw(p, g, r, c, pv, bu, q, cr, du, dp, sh, nz, dd, ru) ==
    [product_i |-> p, region_i |-> g, rep_i |-> r, customer_i |-> c,
     price_variation |-> pv, bulk_u |-> bu, quantity |-> q, cost_ratio |-> cr,
     discount_u |-> du, discount_percent |-> dp, shipping_cost |-> sh,
     noise |-> nz, delivery_days |-> dd, return_u |-> ru]

\* The transactions the generator loop is run on: a full-price Laptop sold in
\* North America to the first customer, and a discounted, returned bulk order
\* of Desktops sold in Europe to the last one.
SampleDraws ==
    { Draw(1, 1, 1, 1, 10000, 5000, 1, 5000, 5000, 0, 50000, 0, 3, 5000),
      Draw(2, 2, 5, NumCustomers, 8500, 500, 5, 6999, 1000, 123456, 249999, -3000, 8, 100) }

\* The sampled values of each continuous draw: the ends of its range and
\* values between that do not fall on a cent.
PriceVariations == {8500, 10499, 12499}

CostRatios == {4000, 6999}

DiscountDraws == {<<5000, 0>>, <<0, 50000>>, <<1999, 123456>>, <<1000, 249999>>}

QuantityDraws == {<<500, 5>>, <<999, 19>>, <<1000, 1>>, <<9999, 3>>}

Noises == {-40000, -2999, 0, 1234, 40000}

ShippingCosts(region) ==
    {ShippingRange(region)[1], ShippingRange(region)[2] - 1}

DeliveryDays(region) == {region_delivery_days[region][1], region_delivery_days[region][2]}

ReturnDraws == {0, 1499, 9999}

\* Every product, region, price, quantity, cost ratio and discount, for the
\* rep with the highest and the one with the lowest performance factor.
FinancialDraws ==
    { Draw(p, g, r, 1, pv, q[1], q[2], cr, dc[1], dc[2],
           ShippingRange(regions[g])[1], 0, region_delivery_days[regions[g]][1], 5000) :
        p \in 1..Len(products), g \in 1..Len(regions), r \in {1, 5},
        pv \in PriceVariations, q \in QuantityDraws, cr \in CostRatios,
        dc \in DiscountDraws }

\* Every region and rep with every noise and return draw, with and without a
\* discount.
ServiceDraws ==
    { Draw(1, g, r, 1, 10499, 5000, 2, 5555, du[1], du[2],
           ShippingRange(regions[g])[1], nz, region_delivery_days[regions[g]][1], ru) :
        g \in 1..Len(regions), r \in 1..Len(sales_reps), nz \in Noises,
        ru \in ReturnDraws, du \in {<<5000, 0>>, <<1000, 249999>>} }

\* Every region with the ends of its shipping and delivery ranges, for three
\* customers.
DeliveryDraws ==
    UNION { { Draw(5, g, 3, c, 10499, 5000, 2, 5555, 5000, 0, sh, 0, dd, 5000) :
                sh \in ShippingCosts(regions[g]), dd \in DeliveryDays(regions[g]),
                c \in {1, 42, NumCustomers} } :
            g \in 1..Len(regions) }

RichDraws == FinancialDraws \cup ServiceDraws \cup DeliveryDraws

\* -------------------------------------------- aggregation (lines 229-287)

\* df[col] of the rows whose df[by] is k, in row order.
Group(df_, by, k) == SelectSeq(df_, LAMBDA row : Get(row, by) = k)

\* df[by].unique(), as a set.
GroupKeys(df_, by) == {Get(df_[i], by) : i \in 1..Len(df_)}

\* 'sum'
RECURSIVE SumOf(_, _)
SumOf(rows, col) ==
    IF rows = <<>> THEN 0 ELSE Get(Head(rows), col) + SumOf(Tail(rows), col)

\* 'count'
CountOf(rows) == Len(rows)

\* 'mean' of a column of non-negative values.
MeanOf(rows, col) == MulDiv(SumOf(rows, col), 1, Len(rows))

\* lambda x: (x == True).sum()
CountTrue(rows, col) == Cardinality({i \in 1..Len(rows) : Get(rows[i], col) = TRUE})

\* 'nunique'
NUnique(rows, col) == Cardinality({Get(rows[i], col) : i \in 1..Len(rows)})

\* ord(c) for the characters of a date string.
CharCode(c) == IF c = "-" THEN 45 ELSE 48 + (CHOOSE d \in 0..9 : DigitChar(d) = c)

\* a <= b for strings (lexicographic).
RECURSIVE StrLeq(_, _)
StrLeq(a, b) ==
    IF a = <<>> THEN TRUE
    ELSE IF b = <<>> THEN FALSE
    ELSE IF CharCode(Head(a)) /= CharCode(Head(b)) THEN CharCode(Head(a)) < CharCode(Head(b))
    ELSE StrLeq(Tail(a), Tail(b))

\* 'min' and 'max' of a string column.
MinOf(rows, col) ==
    LET vals == {Get(rows[i], col) : i \in 1..Len(rows)}
    IN  CHOOSE v \in vals : \A w \in vals : StrLeq(v, w)

MaxOf(rows, col) ==
    LET vals == {Get(rows[i], col) : i \in 1..Len(rows)}
    IN  CHOOSE v \in vals : \A w \in vals : StrLeq(w, v)

\* Lines 230-244: one row per Customer_ID.
CustomerSummary(df_) ==
    [k \in GroupKeys(df_, "Customer_ID") |->
        LET g == Group(df_, "Customer_ID", k)
        IN  [Total_Revenue    |-> Round2(SumOf(g, "Final_Revenue")),
             Total_Quantity   |-> SumOf(g, "Quantity"),
             Total_Orders     |-> CountOf(g),
             Avg_Satisfaction |-> Round2(MeanOf(g, "Customer_Satisfaction")),
             Returns_Count    |-> CountTrue(g, "Is_Returned"),
             Region           |-> Get(g[1], "Region"),
             First_Order_Date |-> MinOf(g, "Date"),
             Last_Order_Date  |-> MaxOf(g, "Date")]]

\* The sum taken over the revenue before the discount.
ProductTotalRevenueGross(g) == Round2(SumOf(g, "Revenue"))

\* 'Final_Revenue': 'sum', then .round(2)
ProductTotalRevenue(g) == Round2(SumOf(g, "Final_Revenue"))

\* Lines 247-259: one row per Product.
ProductSummary(df_) ==
    [k \in GroupKeys(df_, "Product") |->
        LET g == Group(df_, "Product", k)
        IN  [Total_Revenue    |-> ProductTotalRevenue(g),
             Total_Quantity   |-> SumOf(g, "Quantity"),
             Total_Orders     |-> CountOf(g),
             Avg_Margin       |-> Round2(MeanOf(g, "Final_Margin")),
             Avg_Satisfaction |-> Round2(MeanOf(g, "Customer_Satisfaction")),
             Return_Rate      |->
                 Round2(MulDiv(CountTrue(g, "Is_Returned"), 100 * Scale, Len(g)))]]

\* Lines 262-273: one row per Sales_Rep.
RepSummary(df_) ==
    [k \in GroupKeys(df_, "Sales_Rep") |->
        LET g == Group(df_, "Sales_Rep", k)
        IN  [Total_Revenue    |-> Round2(SumOf(g, "Final_Revenue")),
             Total_Orders     |-> CountOf(g),
             Avg_Margin       |-> Round2(MeanOf(g, "Final_Margin")),
             Avg_Customer_Satisfaction |-> Round2(MeanOf(g, "Customer_Satisfaction")),
             Unique_Customers |-> NUnique(g, "Customer_ID")]]

\* Lines 276-287: one row per (Year, Month).
MonthlySummary(df_) ==
    [k \in {<<Get(df_[i], "Year"), Get(df_[i], "Month")>> : i \in 1..Len(df_)} |->
        LET g == SelectSeq(df_, LAMBDA row : <<Get(row, "Year"), Get(row, "Month")>> = k)
        IN  [Revenue          |-> Round2(SumOf(g, "Final_Revenue")),
             Profit           |-> Round2(SumOf(g, "Final_Profit")),
             Orders           |-> CountOf(g),
             Unique_Customers |-> NUnique(g, "Customer_ID"),
             Units_Sold       |-> SumOf(g, "Quantity"),
             Date             |-> FormatDate([year |-> k[1], month |-> k[2], day |-> 1])]]

\* ---------------------------------------------- the dashboard's data types

\* The two places load_data looks for the primary dataset, in order.
Paths == <<"data/sales_data.csv", "sales_data.csv">>

\* A path of the working directory: whether os.path.exists finds it, whether
\* pd.read_csv can read it, and the rows of the table written in it.
File(exists, readable, rows) == [exists |-> exists, readable |-> readable, rows |-> rows]

NoFile == File(FALSE, FALSE, <<>>)

PathSet == {Paths[i] : i \in 1..Len(Paths)}

\* A cell of a Date column: a pandas Timestamp, or text.
Timestamp(date) == [type |-> "Timestamp", v |-> date]

Str(chars) == [type |-> "str", v |-> chars]

\* The filter widgets before the script has drawn them.
NoWidgets == [date_range |-> <<>>, regions |-> {}, categories |-> {}, products |-> {}]

\* ------------------------------------------------------------------ state

\* The processes that run the script, one after the other.
Runs == {1, 2}

VARIABLES
    pc,                \* where each process is in the script
    day,               \* the index in dates of the loop's current date
    num_transactions,  \* the day's number of transactions
    txn,               \* iterations of the inner loop done for the day
    order_id,          \* the next order number
    data,              \* the list of records
    df,                \* the DataFrame returned by generate_sales_data
    customers_data,    \* the four summary tables
    product_data,
    rep_data,
    monthly_data,
    rng,               \* each process's global np.random state: stream and position
    stream,            \* for each seed, the values its stream has yielded so far
    call,              \* the arguments of a function applied on its own
    result,            \* and what it returned
    files,             \* the dashboard's working directory: the two CSV paths
    sample_stream,     \* what the seeded stream yields to generate_sample_data
    dash_pc,           \* where the dashboard script is
    dash_df,           \* the dashboard's df, as load_data returned it
    sidebar,           \* the messages load_data put in the sidebar
    widgets,           \* the values of the four filter widgets
    df_filtered        \* the dashboard's filtered table

dashvars == <<files, sample_stream, dash_pc, dash_df, sidebar, widgets, df_filtered>>

vars ==
    <<pc, day, num_transactions, txn, order_id, data, df, customers_data, product_data,
      rep_data, monthly_data, rng, stream, call, result, dashvars>>

genvars ==
    <<pc, day, num_transactions, txn, order_id, data, df, customers_data, product_data,
      rep_data, monthly_data, rng, stream>>

\* The state NumPy's global generator starts in: seeded from operating-system
\* entropy, so a stream of its own for every process.
OsEntropy(r) == r

StreamKeys == {Seed} \cup {OsEntropy(r) : r \in Runs}

\* The seed call left out: the generator keeps its entropy state.
np_random_seed_skipped(r, seed) == rng[r]

\* np.random.seed(seed) in process r: the stream of that seed, from its start.
np_random_seed(r, seed) == [seed |-> seed, pos |-> 0]

\* The next value of process r's stream is v: the value the stream has already
\* yielded at that position, or, at a position not yet revealed, any value of
\* the call's range.
Sample(r, kind, v) ==
    LET s == rng[r].seed
        p == rng[r].pos + 1
    IN  /\ IF p <= Len(stream[s])
           THEN /\ stream[s][p].kind = kind
                /\ stream[s][p].v = v
                /\ UNCHANGED stream
           ELSE stream' = [stream EXCEPT ![s] = Append(@, [kind |-> kind, v |-> v])]
        /\ rng' = [rng EXCEPT ![r].pos = p]

Idle ==
    /\ pc = [r \in Runs |-> "off"]
    /\ day = [r \in Runs |-> 0]
    /\ num_transactions = [r \in Runs |-> 0]
    /\ txn = [r \in Runs |-> 0]
    /\ order_id = [r \in Runs |-> 0]
    /\ data = [r \in Runs |-> <<>>]
    /\ df = [r \in Runs |-> <<>>]
    /\ customers_data = [r \in Runs |-> <<>>]
    /\ product_data = [r \in Runs |-> <<>>]
    /\ rep_data = [r \in Runs |-> <<>>]
    /\ monthly_data = [r \in Runs |-> <<>>]
    /\ rng = [r \in Runs |-> [seed |-> OsEntropy(r), pos |-> 0]]
    /\ stream = [s \in StreamKeys |-> <<>>]

\* The dashboard not running, in an empty directory.
DashOff ==
    /\ files = [p \in PathSet |-> NoFile]
    /\ sample_stream = <<>>
    /\ dash_pc = "off"
    /\ dash_df = <<>>
    /\ sidebar = <<>>
    /\ widgets = NoWidgets
    /\ df_filtered = <<>>

Init ==
    /\ Idle
    /\ DashOff
    /\ call = [fn |-> "none"]
    /\ result = <<>>

\* ---------------------------------------------------------------- actions

\* One transaction a day, whatever the draw.
NumTransactionsOne(draw) == 1

\* The floor left out: the draw taken as it comes.
NumTransactionsUnfloored(draw) == draw

\* num_transactions = max(1, int(np.random.poisson(...)))
NumTransactions(draw) == Max(1, draw)

\* The counter left as it is.
NextOrderIdStuck(n) == n

\* order_id += 1
NextOrderId(n) == n + 1

\* The record put in front of the list rather than at its end.
ListInsertFirst(list, item) == <<item>> \o list

\* data.append(record)
ListAppend(list, item) == Append(list, item)

\* pd.DataFrame(data): the rows, their columns the keys of the dicts.
DataFrame(rows) == rows

\* Lines 7 and 40-41: the process seeds the generator, and generate_sales_data
\* starts with an empty list and order number 1.  A process starts when the
\* one before it has finished.
Start(r) ==
    /\ pc[r] = "off"
    /\ IF r = 1 THEN TRUE ELSE pc[r - 1] = "done"
    /\ rng' = [rng EXCEPT ![r] = np_random_seed(r, Seed)]
    /\ data' = [data EXCEPT ![r] = <<>>]
    /\ order_id' = [order_id EXCEPT ![r] = 1]
    /\ pc' = [pc EXCEPT ![r] = "for_date"]
    /\ UNCHANGED <<day, num_transactions, txn, df, customers_data, product_data,
                   rep_data, monthly_data, stream, call, result, dashvars>>

\* Lines 43-70: the loop takes the next date and draws its number of
\* transactions.  The Poisson mean is positive on every date (each factor is),
\* so every natural number is a possible draw.
NextDay(r) ==
    /\ pc[r] = "for_date"
    /\ day[r] < NumDays
    /\ \E draw \in 0..MaxPoisson :
         /\ Sample(r, "poisson", draw)
         /\ num_transactions' = [num_transactions EXCEPT ![r] = NumTransactions(draw)]
         /\ pc' = [pc EXCEPT ![r] = IF NumTransactions(draw) > 0 THEN "for_txn" ELSE "for_date"]
    /\ day' = [day EXCEPT ![r] = @ + 1]
    /\ txn' = [txn EXCEPT ![r] = 0]
    /\ UNCHANGED <<order_id, data, df, customers_data, product_data, rep_data,
                   monthly_data, call, result, dashvars>>

\* Lines 72-197: one iteration of the inner loop samples a transaction, builds
\* its record, appends it and advances the order number.
Transaction(r) ==
    /\ pc[r] = "for_txn"
    /\ txn[r] < num_transactions[r]
    /\ \E d \in SampleDraws :
         /\ ValidDraw(d)
         /\ Sample(r, "txn", d)
         /\ data' = [data EXCEPT ![r] = ListAppend(@, record(order_id[r], dates(day[r]), Sale(d)))]
    /\ order_id' = [order_id EXCEPT ![r] = NextOrderId(@)]
    /\ txn' = [txn EXCEPT ![r] = @ + 1]
    /\ pc' = [pc EXCEPT ![r] = IF txn[r] + 1 < num_transactions[r] THEN "for_txn" ELSE "for_date"]
    /\ UNCHANGED <<day, num_transactions, df, customers_data, product_data, rep_data,
                   monthly_data, call, result, dashvars>>

\* Lines 199-224: after the last date the list is returned as a DataFrame and
\* written out.
Return(r) ==
    /\ pc[r] = "for_date"
    /\ day[r] = NumDays
    /\ df' = [df EXCEPT ![r] = DataFrame(data[r])]
    /\ pc' = [pc EXCEPT ![r] = "customers"]
    /\ UNCHANGED <<day, num_transactions, txn, order_id, data, customers_data,
                   product_data, rep_data, monthly_data, rng, stream, call, result, dashvars>>

\* Lines 229-244
AggregateCustomers(r) ==
    /\ pc[r] = "customers"
    /\ customers_data' = [customers_data EXCEPT ![r] = CustomerSummary(df[r])]
    /\ pc' = [pc EXCEPT ![r] = "products"]
    /\ UNCHANGED <<day, num_transactions, txn, order_id, data, df, product_data,
                   rep_data, monthly_data, rng, stream, call, result, dashvars>>

\* Lines 246-259
AggregateProducts(r) ==
    /\ pc[r] = "products"
    /\ product_data' = [product_data EXCEPT ![r] = ProductSummary(df[r])]
    /\ pc' = [pc EXCEPT ![r] = "reps"]
    /\ UNCHANGED <<day, num_transactions, txn, order_id, data, df, customers_data,
                   rep_data, monthly_data, rng, stream, call, result, dashvars>>

\* Lines 261-273
AggregateReps(r) ==
    /\ pc[r] = "reps"
    /\ rep_data' = [rep_data EXCEPT ![r] = RepSummary(df[r])]
    /\ pc' = [pc EXCEPT ![r] = "months"]
    /\ UNCHANGED <<day, num_transactions, txn, order_id, data, df, customers_data,
                   product_data, monthly_data, rng, stream, call, result, dashvars>>

\* Lines 275-295
AggregateMonths(r) ==
    /\ pc[r] = "months"
    /\ monthly_data' = [monthly_data EXCEPT ![r] = MonthlySummary(df[r])]
    /\ pc' = [pc EXCEPT ![r] = "done"]
    /\ UNCHANGED <<day, num_transactions, txn, order_id, data, df, customers_data,
                   product_data, rep_data, rng, stream, call, result, dashvars>>

\* One step of process r.
Step(r) ==
    \/ Start(r)
    \/ NextDay(r)
    \/ Transaction(r)
    \/ Return(r)
    \/ AggregateCustomers(r)
    \/ AggregateProducts(r)
    \/ AggregateReps(r)
    \/ AggregateMonths(r)

\* One run of the script.
Next == Step(1)

Spec == Init /\ [][Next]_vars

\* Two runs of the script, each a process of its own.
NextTwice == \E r \in Runs : Step(r)

SpecTwice == Init /\ [][NextTwice]_vars

\* ------------------------------------- the record as a function of its draws

InitRecord ==
    /\ Idle
    /\ call \in {[fn |-> "record", order_id |-> 1, day |-> i, d |-> d] :
                   i \in 1..NumDays, d \in RichDraws}
    /\ ValidDraw(call.d)
    /\ result = <<>>
    /\ DashOff

\* Lines 73-194 applied to the draws of one transaction.
ApplyRecord ==
    /\ call.fn = "record"
    /\ result = <<>>
    /\ result' = record(call.order_id, dates(call.day), Sale(call.d))
    /\ UNCHANGED <<call, genvars, dashvars>>

SpecRecord == InitRecord /\ [][ApplyRecord]_vars

\* ------------------------------- the final figures as a function of revenue

\* The revenues the generator can compute, and 0.
Revenues == {0} \cup {Sale(d).revenue : d \in FinancialDraws}

InitFinalFigures ==
    /\ Idle
    /\ call \in {[fn |-> "final_figures", revenue |-> rv, cost |-> MulFx(rv, cr),
                  discount_amount |-> IF dc[1] < 2000 THEN DiscountAmount(rv, dc[2]) ELSE 0] :
                   rv \in Revenues, cr \in CostRatios, dc \in DiscountDraws}
    /\ result = <<>>
    /\ DashOff

\* Lines 136-138 applied to a revenue, its cost and its discount.
ApplyFinalFigures ==
    /\ call.fn = "final_figures"
    /\ result = <<>>
    /\ result' = FinalFigures(call.revenue, call.cost, call.discount_amount)
    /\ UNCHANGED <<call, genvars, dashvars>>

SpecFinalFigures == InitFinalFigures /\ [][ApplyFinalFigures]_vars

\* ------------------------------ the dashboard (sales_dashboard.py)

\* Lines 81-84 and 99-102: the business parameters of the sample data.
sample_products ==
    <<"Laptop", "Desktop", "Monitor", "Keyboard", "Mouse", "Printer", "Scanner", "Tablet">>

sample_categories == <<"Electronics", "Accessories", "Peripherals">>

sample_regions == <<"North America", "Europe", "Asia Pacific", "South America", "Africa">>

sample_sales_reps ==
    <<"John Smith", "Sarah Johnson", "Mike Wilson", "Lisa Brown", "Tom Davis">>

sample_base_prices ==
    [Laptop |-> 800, Desktop |-> 600, Monitor |-> 300, Keyboard |-> 50,
     Mouse |-> 25, Printer |-> 150, Scanner |-> 200, Tablet |-> 400]

\* dates[::3]: every third date, from the first.
sample_dates(i) == dates(3 * (i - 1) + 1)

\* np.sin(2 * np.pi * month / 12), in ticks.
SinTwelfths(month) ==
    <<5000, 8660, 10000, 8660, 5000, 0, -5000, -8660, -10000, -8660, -5000, 0>>[month]

\* 1 + 0.2 * np.sin(2 * np.pi * date.month / 12)
month_factor(date) == Scale + MulFx(2000, SinTwelfths(date.month))

\* 1 + 0.1 * (date.year - 2022)
year_factor(date) == Scale + 1000 * (date.year - 2022)

\* The values one sale of the sample data draws: four choices, the price
\* variation in [0.8, 1.3) and randint(1, 5).
SampleDraw(p, c, g, r, pv, q) ==
    [product_i |-> p, category_i |-> c, region_i |-> g, rep_i |-> r,
     price_variation |-> pv, quantity |-> q]

\* Lines 93-128: one row of the sample data.  The category is drawn on its
\* own, whatever the product.
sample_record(date, d) ==
    LET product == sample_products[d.product_i]
        price == MulFx(sample_base_prices[product] * Scale, d.price_variation)
        revenue == MulFx(price * d.quantity, MulFx(month_factor(date), year_factor(date)))
    IN  << <<"Date", Timestamp(date)>>,
           <<"Product", product>>,
           <<"Category", sample_categories[d.category_i]>>,
           <<"Region", sample_regions[d.region_i]>>,
           <<"Sales_Rep", sample_sales_reps[d.rep_i]>>,
           <<"Quantity", d.quantity>>,
           <<"Unit_Price", Round2(price)>>,
           <<"Revenue", Round2(revenue)>>,
           <<"Cost", Round2(MulFx(revenue, 6000))>>,
           <<"Profit", Round2(MulFx(revenue, 4000))>>,
           <<"Profit_Margin", 40 * Scale>>,
           <<"Year", date.year>>,
           <<"Month", date.month>>,
           <<"Quarter", ((date.month - 1) \div 3) + 1>> >>

\* The rows of the first i sampled dates: for each date as many as its Poisson
\* draw, which is the number of sales the stream holds for it and may be 0.
RECURSIVE SampleRows(_, _)
SampleRows(draws, i) ==
    IF i = 0 THEN <<>>
    ELSE SampleRows(draws, i - 1)
         \o [k \in 1..Len(draws[i]) |-> sample_record(sample_dates(i), draws[i][k])]

\* Lines 70-131
generate_sample_data(draws) == DataFrame(SampleRows(draws, Len(draws)))

\* pd.read_csv without parse_dates: the table of the file, its Date column
\* left as text; raises when the file cannot be read.
pd_read_csv(file) ==
    IF file.readable
    THEN Ok([i \in 1..Len(file.rows) |->
               [k \in 1..Len(file.rows[i]) |->
                   IF file.rows[i][k][1] = "Date"
                   THEN <<"Date", Str(file.rows[i][k][2])>>
                   ELSE file.rows[i][k]]])
    ELSE Raised

\* What load_data leaves behind: whether it raised, the table it returned and
\* the messages it put in the sidebar.
Loaded(raised, table, messages) == [raised |-> raised, df |-> table, sidebar |-> messages]

\* load_data without its try: an exception of pd.read_csv goes up.
load_data_uncaught(fs, draws) ==
    IF fs[Paths[1]].exists
    THEN IF pd_read_csv(fs[Paths[1]]).err
         THEN Loaded(TRUE, <<>>, <<>>)
         ELSE Loaded(FALSE, pd_read_csv(fs[Paths[1]]).val, <<"success">>)
    ELSE IF fs[Paths[2]].exists
    THEN IF pd_read_csv(fs[Paths[2]]).err
         THEN Loaded(TRUE, <<>>, <<>>)
         ELSE Loaded(FALSE, pd_read_csv(fs[Paths[2]]).val, <<"success">>)
    ELSE Loaded(FALSE, generate_sample_data(draws), <<"info">>)

\* Lines 45-68: the first of the two paths that exists is read; if neither
\* exists, or the read raises, the sample data is generated.
load_data(fs, draws) ==
    IF fs[Paths[1]].exists
    THEN IF pd_read_csv(fs[Paths[1]]).err
         THEN Loaded(FALSE, generate_sample_data(draws), <<"warning", "info">>)
         ELSE Loaded(FALSE, pd_read_csv(fs[Paths[1]]).val, <<"success">>)
    ELSE IF fs[Paths[2]].exists
    THEN IF pd_read_csv(fs[Paths[2]]).err
         THEN Loaded(FALSE, generate_sample_data(draws), <<"warning", "info">>)
         ELSE Loaded(FALSE, pd_read_csv(fs[Paths[2]]).val, <<"success">>)
    ELSE Loaded(FALSE, generate_sample_data(draws), <<"info">>)

\* int(s) for a string of digits.
RECURSIVE ParseDigits(_)
ParseDigits(s) ==
    IF s = <<>> THEN 0
    ELSE 10 * ParseDigits(SubSeq(s, 1, Len(s) - 1)) + (CharCode(s[Len(s)]) - 48)

\* date.fromisoformat: the date a text 'YYYY-MM-DD' spells.
ParseIsoDate(chars) ==
    [year  |-> ParseDigits(SubSeq(chars, 1, 4)),
     month |-> ParseDigits(SubSeq(chars, 6, 7)),
     day   |-> ParseDigits(SubSeq(chars, 9, 10))]

\* The calendar date of a Date cell, as the date widget takes it.
ToDate(cell) == IF cell.type = "Timestamp" THEN cell.v ELSE ParseIsoDate(cell.v)

\* The order of the cells of a Date column: Timestamps by time, text by
\* characters.
CellLeq(a, b) ==
    IF a.type = "Timestamp"
    THEN DaysSinceStart(a.v) <= DaysSinceStart(b.v)
    ELSE StrLeq(a.v, b.v)

\* df[col].unique()
Unique(df_, col) == {Get(df_[i], col) : i \in 1..Len(df_)}

\* df['Date'].min() and df['Date'].max()
DateMin(df_) == CHOOSE c \in Unique(df_, "Date") : \A w \in Unique(df_, "Date") : CellLeq(c, w)

DateMax(df_) == CHOOSE c \in Unique(df_, "Date") : \A w \in Unique(df_, "Date") : CellLeq(w, c)

\* The calendar dates from a to b.
RECURSIVE DateSpan(_, _)
DateSpan(a, b) == IF a = b THEN {a} ELSE {a} \cup DateSpan(NextDate(a), b)

\* Lines 155-160: what the date widget can hold: no date, one date, or a start
\* and an end in order, each between min_value and max_value.
DateInputs(df_) ==
    LET span == DateSpan(ToDate(DateMin(df_)), ToDate(DateMax(df_)))
    IN  {<<>>}
        \cup {<<a>> : a \in span}
        \cup {p \in span \X span : DaysSinceStart(p[1]) <= DaysSinceStart(p[2])}

\* pd.to_datetime(date)
pd_to_datetime(date) == Timestamp(date)

\* Lines 162-167: with two dates chosen, the rows whose Date is from the start
\* to the end, both included; otherwise every row.  Comparing a column of
\* text with a Timestamp raises TypeError.
FilterByDate(df_, date_range) ==
    IF Len(date_range) = 2
    THEN IF \E i \in 1..Len(df_) : Get(df_[i], "Date").type /= "Timestamp"
         THEN Raised
         ELSE Ok(SelectSeq(df_, LAMBDA row :
                   /\ DaysSinceStart(Get(row, "Date").v)
                         >= DaysSinceStart(pd_to_datetime(date_range[1]).v)
                   /\ DaysSinceStart(Get(row, "Date").v)
                         <= DaysSinceStart(pd_to_datetime(date_range[2]).v)))
    ELSE Ok(df_)

\* Lines 189-193: the rows whose Region, Category and Product are all among
\* the chosen ones.
FilterByChoices(df_, w) ==
    SelectSeq(df_, LAMBDA row :
        /\ Get(row, "Region") \in w.regions
        /\ Get(row, "Category") \in w.categories
        /\ Get(row, "Product") \in w.products)

\* The tables generate_sales_data.py can have written: one record, or a
\* record on each of the first two dates.
GeneratedTables ==
    {DataFrame(<<record(1, dates(1), Sale(d))>>) : d \in SampleDraws}
    \cup {DataFrame(<<record(1, dates(1), Sale(d)), record(2, dates(2), Sale(e))>>) :
            d \in SampleDraws, e \in SampleDraws}

\* What a path can be: absent, there but not readable as a CSV table, or a
\* table written by to_csv.
FileStates ==
    {NoFile, File(TRUE, FALSE, <<>>)} \cup {File(TRUE, TRUE, t) : t \in GeneratedTables}

\* Sampled outcomes of the stream seeded by generate_sample_data: two sales on
\* the first date and one on the next, or none on the first date and two on
\* the next.
SampleStreams ==
    { << <<SampleDraw(1, 1, 1, 1, 10000, 1), SampleDraw(5, 3, 2, 5, 8000, 4)>>,
         <<SampleDraw(1, 2, 2, 3, 12999, 2)>> >>,
      << <<>>,
         <<SampleDraw(5, 3, 2, 5, 8000, 4), SampleDraw(1, 1, 1, 1, 10000, 1)>> >> }

\* The dashboard started in some working directory, the generator idle.
InitDashboard ==
    /\ Idle
    /\ call = [fn |-> "none"]
    /\ result = <<>>
    /\ files \in [PathSet -> FileStates]
    /\ sample_stream \in SampleStreams
    /\ dash_pc = "start"
    /\ dash_df = <<>>
    /\ sidebar = <<>>
    /\ widgets = NoWidgets
    /\ df_filtered = <<>>

\* Lines 133-135: df = load_data()
LoadData ==
    /\ dash_pc = "start"
    /\ dash_df' = load_data(files, sample_stream).df
    /\ sidebar' = load_data(files, sample_stream).sidebar
    /\ dash_pc' = IF load_data(files, sample_stream).raised THEN "load_failed" ELSE "loaded"
    /\ UNCHANGED <<files, sample_stream, widgets, df_filtered, genvars, call, result>>

\* Lines 154-193: one run of the script over the loaded table, for whatever
\* the widgets hold.
Render ==
    /\ dash_pc = "loaded"
    /\ \E dr \in DateInputs(dash_df) :
       \E rs \in SUBSET Unique(dash_df, "Region") :
       \E cs \in SUBSET Unique(dash_df, "Category") :
       \E ps \in SUBSET Unique(dash_df, "Product") :
         /\ widgets' = [date_range |-> dr, regions |-> rs, categories |-> cs, products |-> ps]
         /\ IF FilterByDate(dash_df, dr).err
            THEN /\ dash_pc' = "filter_raised"
                 /\ df_filtered' = <<>>
            ELSE /\ dash_pc' = "rendered"
                 /\ df_filtered' = FilterByChoices(FilterByDate(dash_df, dr).val, widgets')
    /\ UNCHANGED <<files, sample_stream, dash_df, sidebar, genvars, call, result>>

\* A widget changes and the script runs again from its top; load_data is
\* cached (line 46), the table is the one loaded before.
Rerun ==
    /\ dash_pc \in {"rendered", "filter_raised"}
    /\ dash_pc' = "loaded"
    /\ widgets' = NoWidgets
    /\ df_filtered' = <<>>
    /\ UNCHANGED <<files, sample_stream, dash_df, sidebar, genvars, call, result>>

NextDashboard == LoadData \/ Render \/ Rerun

SpecDashboard == InitDashboard /\ [][NextDashboard]_vars

\* ---------------------------------------------------------------- claims

\* The number an Order_ID carries after its 'ORD_' prefix.
OrderNumber(row) == ParseDigits(SubSeq(Get(row, "Order_ID"), 5, Len(Get(row, "Order_ID"))))

\* C1: the k-th record appended carries Order_ID 'ORD_' followed by k
\* zero-padded to 6 digits: the ids start at ORD_000001, go up by exactly 1
\* per record, and are strictly increasing in output order, across days.
C1_OrderIdsSequential ==
    \A r \in Runs :
        /\ \A k \in 1..Len(data[r]) :
              LET id == Get(data[r][k], "Order_ID")
              IN  /\ Len(id) = 10
                  /\ SubSeq(id, 1, 4) = <<"O", "R", "D", "_">>
                  /\ \A i \in 5..10 : id[i] \in {DigitChar(n) : n \in 0..9}
                  /\ OrderNumber(data[r][k]) = k
        /\ \A k \in 1..(Len(data[r]) - 1) :
              OrderNumber(data[r][k + 1]) = OrderNumber(data[r][k]) + 1

\* A finished run with two records on one day and a record on the next.
C1_Witness ==
    /\ pc[1] = "done"
    /\ \E k \in 1..(Len(data[1]) - 2) :
          /\ Get(data[1][k], "Date") = Get(data[1][k + 1], "Date")
          /\ Get(data[1][k + 1], "Date") /= Get(data[1][k + 2], "Date")
          /\ Get(data[1][k + 2], "Order_ID") = <<"O", "R", "D", "_">> \o ZeroPad(Digits(k + 2), 6)

\* The dates of the rows of a table.
DatesIn(rows) == {Get(rows[i], "Date") : i \in 1..Len(rows)}

\* C2: whatever the Poisson draws are, a draw of 0 included, every date of the
\* range is the Date of at least one record: of the list once the loop has
\* gone through the date, and of the primary dataset once it is returned.
C2_DateCoverage ==
    \A r \in Runs : \A i \in 1..NumDays :
        /\ (i < day[r] \/ (i = day[r] /\ pc[r] /= "for_txn"))
              => FormatDate(dates(i)) \in DatesIn(data[r])
        /\ pc[r] \in {"customers", "products", "reps", "months", "done"}
              => FormatDate(dates(i)) \in DatesIn(df[r])

\* A returned dataset of a run in which a Poisson draw was 0.
C2_Witness ==
    /\ pc[1] = "done"
    /\ \E p \in 1..Len(stream[Seed]) :
          stream[Seed][p].kind = "poisson" /\ stream[Seed][p].v = 0
    /\ Cardinality(DatesIn(df[1])) = NumDays

\* The draws a process has consumed, in order.
Consumed(r) == SubSeq(stream[rng[r].seed], 1, rng[r].pos)

\* C3: two independent runs seeded with 42 consume the random stream in the
\* same order and produce the same records and the same four summary tables.
C3_Deterministic ==
    \A r1, r2 \in Runs :
        /\ (pc[r1] /= "off" /\ pc[r2] /= "off" /\ rng[r1].pos <= rng[r2].pos)
              => /\ Consumed(r1) = SubSeq(Consumed(r2), 1, rng[r1].pos)
                 /\ Len(data[r1]) <= Len(data[r2])
                 /\ data[r1] = SubSeq(data[r2], 1, Len(data[r1]))
        /\ (pc[r1] = "done" /\ pc[r2] = "done")
              => /\ data[r1] = data[r2]
                 /\ df[r1] = df[r2]
                 /\ customers_data[r1] = customers_data[r2]
                 /\ product_data[r1] = product_data[r2]
                 /\ rep_data[r1] = rep_data[r2]
                 /\ monthly_data[r1] = monthly_data[r2]

\* Both runs have finished, each with at least three records.
C3_Witness ==
    /\ pc[1] = "done" /\ pc[2] = "done"
    /\ Len(data[2]) >= 3
    /\ rng[2].pos = rng[1].pos /\ rng[2].pos > 0

\* The fields of the transaction record as the data model lists them.
DocumentedColumns ==
    <<"Order_ID", "Date", "Customer_ID", "Product", "Category", "Region", "Sales_Rep",
      "Quantity", "Unit_Price", "Revenue", "Cost", "Profit", "Profit_Margin",
      "Discount_Percent", "Discount_Amount", "Final_Revenue", "Final_Profit",
      "Final_Margin", "Shipping_Cost", "Tax_Amount", "Customer_Satisfaction",
      "Delivery_Days", "Is_Returned", "Year", "Month", "Quarter", "Day_of_Week",
      "Week_Number">>

\* All the rows a run holds: of the list and of the returned dataset.
RowsOf(r) == {data[r][k] : k \in 1..Len(data[r])} \cup {df[r][k] : k \in 1..Len(df[r])}

\* C4 as stated: every row has exactly 29 columns, the documented fields.
C4_Columns29 ==
    \A r \in Runs : \A row \in RowsOf(r) :
        /\ Len(Keys(row)) = 29
        /\ {Keys(row)[i] : i \in 1..Len(row)} = {DocumentedColumns[i] : i \in 1..Len(DocumentedColumns)}

\* C4, amended: every row has exactly 28 columns, the documented fields, in
\* the documented order, none missing and none twice.
C4_Columns28 ==
    \A r \in Runs : \A row \in RowsOf(r) :
        /\ Len(Keys(row)) = 28
        /\ Keys(row) = DocumentedColumns
        /\ Cardinality({Keys(row)[i] : i \in 1..Len(row)}) = 28

\* A returned dataset with rows of two different dates.
C4_Witness ==
    /\ pc[1] = "done"
    /\ Len(df[1]) >= 2
    /\ Get(df[1][1], "Week_Number") = 52
    /\ Get(df[1][1], "Date") /= Get(df[1][Len(df[1])], "Date")

\* C5: computing final_margin never divides by zero: when final_revenue
\* (revenue minus discount_amount) is 0 the final_margin is 0 and no error is
\* raised, otherwise it is final_profit / final_revenue * 100; so a row whose
\* Final_Revenue is 0 has Final_Margin 0.
C5_FinalMarginGuarded ==
    (call.fn = "final_figures" /\ result /= <<>>) =>
        LET final_revenue == call.revenue - call.discount_amount
            final_profit  == final_revenue - call.cost
        IN  /\ result.final_revenue = final_revenue
            /\ ~result.final_margin.err
            /\ final_revenue = 0 => result.final_margin.val = 0
            /\ final_revenue /= 0 =>
                  result.final_margin.val
                    = Sign(final_profit) * MulDiv(Abs(final_profit), 100 * Scale, final_revenue)
            /\ Round2(result.final_revenue) = 0 => Round2(result.final_margin.val) = 0

\* The final figures of a revenue of 0: a final revenue and a margin of 0.
C5_Witness ==
    /\ call.fn = "final_figures"
    /\ result /= <<>>
    /\ result.final_revenue = 0
    /\ result.final_margin = [err |-> FALSE, val |-> 0]

\* The tax rate of a record's region, as the claim gives it.
ClaimedTaxRate(row) == IF Get(row, "Region") = "North America" THEN 800 ELSE 1500

\* C6 as stated: the stored Tax_Amount equals the stored Final_Revenue times
\* the region's rate (0.08 for North America, 0.15 for the others).
C6_TaxOfStoredRevenue ==
    (call.fn = "record" /\ result /= <<>>) =>
        Get(result, "Tax_Amount") = MulFx(Get(result, "Final_Revenue"), ClaimedTaxRate(result))

\* C6, amended: the stored Tax_Amount is the final revenue before rounding
\* times the region's rate, rounded to 2 decimals; it is within one cent of
\* the stored Final_Revenue times that rate.
C6_TaxWithinCent ==
    (call.fn = "record" /\ result /= <<>>) =>
        /\ Get(result, "Tax_Amount")
             = Round2(MulFx(Sale(call.d).final_revenue, ClaimedTaxRate(result)))
        /\ Abs(Get(result, "Tax_Amount")
               - MulFx(Get(result, "Final_Revenue"), ClaimedTaxRate(result))) < 100

\* A North American record whose tax is not the rate times its stored revenue.
C6_Witness ==
    /\ call.fn = "record"
    /\ result /= <<>>
    /\ Get(result, "Region") = "North America"
    /\ Get(result, "Tax_Amount") /= MulFx(Get(result, "Final_Revenue"), 800)
    /\ Get(result, "Tax_Amount") > 0

\* C7: whatever the margin, the rep factor and the noise, the stored
\* customer_satisfaction lies in [1.0, 5.0]: the value is clamped after the
\* noise is added, and what is stored is that clamped value (rounded).
C7_SatisfactionClamped ==
    (call.fn = "record" /\ result /= <<>>) =>
        LET s == Sale(call.d)
            unclamped == 35000 + SatisfactionBoost(s.final_margin, rep_performance[s.sales_rep])
                         + call.d.noise
        IN  /\ Get(result, "Customer_Satisfaction") >= 1 * Scale
            /\ Get(result, "Customer_Satisfaction") <= 5 * Scale
            /\ s.customer_satisfaction >= 1 * Scale
            /\ s.customer_satisfaction <= 5 * Scale
            /\ unclamped > 5 * Scale => Get(result, "Customer_Satisfaction") = 5 * Scale
            /\ unclamped < 1 * Scale => Get(result, "Customer_Satisfaction") = 1 * Scale
            /\ Get(result, "Customer_Satisfaction") = Round2(s.customer_satisfaction)

\* A record whose noise took the score below 1.0, stored as 1.0.
C7_Witness ==
    /\ call.fn = "record"
    /\ result /= <<>>
    /\ call.d.noise < 0
    /\ 35000 + SatisfactionBoost(Sale(call.d).final_margin,
                                 rep_performance[Sale(call.d).sales_rep]) + call.d.noise < 1 * Scale
    /\ Get(result, "Customer_Satisfaction") = 1 * Scale

\* C8: Discount_Amount is 0 exactly when Discount_Percent is 0: a record
\* without a discount has both 0, a record with one (5 to 25 percent of the
\* revenue) has both positive, also after the rounding to 2 decimals.
C8_DiscountBothOrNeither ==
    (call.fn = "record" /\ result /= <<>>) =>
        /\ Get(result, "Discount_Amount") = 0 <=> Get(result, "Discount_Percent") = 0
        /\ call.d.discount_u < 2000 =>
              /\ Get(result, "Discount_Percent") >= 5 * Scale
              /\ Get(result, "Discount_Percent") <= 25 * Scale
              /\ Get(result, "Discount_Amount") > 0
        /\ call.d.discount_u >= 2000 =>
              /\ Get(result, "Discount_Percent") = 0
              /\ Get(result, "Discount_Amount") = 0

\* The cheapest sale there is (one Mouse in Africa by the rep with the lowest
\* factor at the lowest price) with the smallest discount, 5 percent.
C8_Witness ==
    /\ call.fn = "record"
    /\ result /= <<>>
    /\ Get(result, "Revenue") = 153200
    /\ Get(result, "Discount_Percent") = 5 * Scale
    /\ Get(result, "Discount_Amount") = 7700

\* The rows of a table with a given product.
RowsWithProduct(rows, p) == {i \in 1..Len(rows) : Get(rows[i], "Product") = p}

\* The sum of a column over the rows with the given indices.
RECURSIVE SumOver(_, _, _)
SumOver(rows, idx, col) ==
    IF idx = {} THEN 0
    ELSE LET i == CHOOSE j \in idx : TRUE
         IN  Get(rows[i], col) + SumOver(rows, idx \ {i}, col)

\* C9: once the product summary is computed, each product that occurs in the
\* records has a row whose Total_Revenue is the sum of Final_Revenue over the
\* records of that product and whose Total_Orders is their number; every
\* record is counted in exactly one row.
C9_ProductTotals ==
    \A r \in Runs :
        pc[r] \in {"reps", "months", "done"} =>
            /\ DOMAIN product_data[r] = {Get(df[r][i], "Product") : i \in 1..Len(df[r])}
            /\ \A p \in DOMAIN product_data[r] :
                  /\ product_data[r][p].Total_Revenue
                       = SumOver(df[r], RowsWithProduct(df[r], p), "Final_Revenue")
                  /\ product_data[r][p].Total_Orders
                       = Cardinality(RowsWithProduct(df[r], p))
            /\ \A i \in 1..Len(df[r]) :
                  Cardinality({p \in DOMAIN product_data[r] : i \in RowsWithProduct(df[r], p)}) = 1

\* A summary of two products, one of them with two orders, one discounted.
C9_Witness ==
    /\ pc[1] = "done"
    /\ Cardinality(DOMAIN product_data[1]) = 2
    /\ product_data[1]["Desktop"].Total_Orders = 2
    /\ product_data[1]["Desktop"].Total_Revenue = 2 * 25324700
    /\ product_data[1]["Laptop"].Total_Revenue = 11040000

\* The product-to-category mapping as the claim gives it: 8 products onto 3.
ClaimedCategory(p) ==
    IF p \in {"Laptop", "Desktop", "Monitor", "Tablet"} THEN "Electronics"
    ELSE IF p \in {"Keyboard", "Mouse"} THEN "Accessories"
    ELSE "Peripherals"

\* C10: the Category of a record is the value the fixed mapping assigns to its
\* Product, whatever the other draws are, so two records of one product never
\* differ in category.
C10_CategoryOfProduct ==
    (call.fn = "record" /\ result /= <<>>) =>
        /\ Get(result, "Product") = products[call.d.product_i]
        /\ Get(result, "Category") = ClaimedCategory(Get(result, "Product"))

\* A Scanner, the last product of its category, recorded as a Peripheral.
C10_Witness ==
    /\ call.fn = "record"
    /\ result /= <<>>
    /\ Get(result, "Product") = "Scanner"
    /\ Get(result, "Category") = "Peripherals"

\* The floored transaction counts of the days a sequence of draws covers: one
\* per Poisson draw, in order.
RECURSIVE FlooredCounts(_)
FlooredCounts(draws) ==
    IF draws = <<>> THEN <<>>
    ELSE LET rest == FlooredCounts(SubSeq(draws, 1, Len(draws) - 1))
             last == draws[Len(draws)]
         IN  IF last.kind = "poisson"
             THEN Append(rest, IF last.v < 1 THEN 1 ELSE last.v)
             ELSE rest

\* The sum of the first n numbers of a sequence.
RECURSIVE SumFirst(_, _)
SumFirst(seq, n) == IF n = 0 THEN 0 ELSE SumFirst(seq, n - 1) + seq[n]

\* C11: once the loop has processed the first d days the list holds exactly
\* the sum of the first d floored counts max(1, Poisson draw), within a day it
\* holds the earlier days' sum plus the transactions done so far, the returned
\* dataset holds the sum over all days, and the number in the last Order_ID
\* equals the row count.
C11_RowCount ==
    \A r \in Runs :
        pc[r] /= "off" =>
            LET counts == FlooredCounts(Consumed(r))
            IN  /\ Len(counts) = day[r]
                /\ pc[r] = "for_txn"
                      => Len(data[r]) = SumFirst(counts, day[r] - 1) + txn[r]
                /\ pc[r] /= "for_txn"
                      => Len(data[r]) = SumFirst(counts, day[r])
                /\ pc[r] \in {"customers", "products", "reps", "months", "done"}
                      => /\ day[r] = NumDays
                         /\ Len(df[r]) = SumFirst(counts, NumDays)
                /\ Len(data[r]) > 0
                      => OrderNumber(data[r][Len(data[r])]) = Len(data[r])

\* A finished run in which one day's draw was 0 and another's was 2: three
\* records, the last of them numbered 3.
C11_Witness ==
    /\ pc[1] = "done"
    /\ \E p, q \in 1..Len(Consumed(1)) :
          /\ Consumed(1)[p].kind = "poisson" /\ Consumed(1)[p].v = 0
          /\ Consumed(1)[q].kind = "poisson" /\ Consumed(1)[q].v = 2
    /\ Len(df[1]) = 3
    /\ OrderNumber(df[1][3]) = 3

\* The path load_data reads: the first of the two that exists.
PathTried ==
    IF files[Paths[1]].exists THEN Paths[1]
    ELSE IF files[Paths[2]].exists THEN Paths[2]
    ELSE "none"

\* Neither path exists, or reading the one that is tried raises.
MustFallBack == IF PathTried = "none" THEN TRUE ELSE ~files[PathTried].readable

\* A table is the one written in a file: the same rows, the same columns in
\* the same order and the same cells, the Date cells being the file's text.
IsTableOf(table, file) ==
    /\ Len(table) = Len(file.rows)
    /\ \A i \in 1..Len(table) :
          /\ Keys(table[i]) = Keys(file.rows[i])
          /\ \A k \in 1..Len(table[i]) :
                IF table[i][k][1] = "Date"
                THEN table[i][k][2].v = file.rows[i][k][2]
                ELSE table[i][k][2] = file.rows[i][k][2]

\* C12: load_data never fails: it returns the table read from
\* data/sales_data.csv if that file exists, otherwise the table read from
\* sales_data.csv if that exists, and it returns the generated sample dataset
\* exactly when neither file exists or reading the file raises.
C12_LoadDataFallback ==
    dash_pc \notin {"off", "start"} =>
        /\ dash_pc /= "load_failed"
        /\ Len(dash_df) > 0
        /\ (PathTried = Paths[1] /\ ~MustFallBack) => IsTableOf(dash_df, files[Paths[1]])
        /\ (PathTried = Paths[2] /\ ~MustFallBack) => IsTableOf(dash_df, files[Paths[2]])
        /\ MustFallBack <=> dash_df = generate_sample_data(sample_stream)
        /\ MustFallBack <=> sidebar[Len(sidebar)] = "info"

\* data/sales_data.csv exists and cannot be read while sales_data.csv holds a
\* table: load_data has warned and returned the sample dataset.
C12_Witness ==
    /\ files[Paths[1]].exists /\ ~files[Paths[1]].readable
    /\ files[Paths[2]].exists /\ files[Paths[2]].readable
    /\ dash_pc = "loaded"
    /\ sidebar = <<"warning", "info">>
    /\ dash_df = generate_sample_data(sample_stream)
    /\ Len(dash_df) = 3

\* The widgets hold their defaults: the whole range of dates and every region,
\* category and product of the table.
DefaultSelections ==
    /\ widgets.date_range = <<ToDate(DateMin(dash_df)), ToDate(DateMax(dash_df))>>
    /\ widgets.regions = Unique(dash_df, "Region")
    /\ widgets.categories = Unique(dash_df, "Category")
    /\ widgets.products = Unique(dash_df, "Product")

\* A row passes the four chosen filters: its date is within the chosen range,
\* ends included (a selection without two dates chooses no range), and its
\* Region, Category and Product are among the chosen ones.
PassesFilters(row) ==
    /\ Len(widgets.date_range) = 2
          => /\ DaysSinceStart(widgets.date_range[1]) <= DaysSinceStart(ToDate(Get(row, "Date")))
             /\ DaysSinceStart(ToDate(Get(row, "Date"))) <= DaysSinceStart(widgets.date_range[2])
    /\ Get(row, "Region") \in widgets.regions
    /\ Get(row, "Category") \in widgets.categories
    /\ Get(row, "Product") \in widgets.products

\* C13: for every state of the filter widgets, a selection without two dates
\* included, the run of the script yields the filtered table, which is exactly
\* the rows of the loaded table that pass the four filters, in the table's
\* order; with the default selections it is the full table.
C13_FilterConjunction ==
    dash_pc \in {"rendered", "filter_raised"} =>
        /\ dash_pc = "rendered"
        /\ df_filtered = SelectSeq(dash_df, PassesFilters)
        /\ DefaultSelections => df_filtered = dash_df

\* C13, for a table whose Date column holds Timestamps (the sample dataset):
\* the filtered table is exactly the rows that pass the four filters, and with
\* the default selections it is the full table.
C13_FilterOfSampleData ==
    (dash_pc \in {"rendered", "filter_raised"} /\ MustFallBack) =>
        /\ dash_pc = "rendered"
        /\ df_filtered = SelectSeq(dash_df, PassesFilters)
        /\ DefaultSelections => df_filtered = dash_df

\* The sample dataset filtered to a range of dates and to one region: some
\* rows are kept and some are not.
C13_Witness ==
    /\ dash_pc = "rendered"
    /\ MustFallBack
    /\ Len(widgets.date_range) = 2
    /\ widgets.regions = {"Europe"}
    /\ Len(df_filtered) = 1
    /\ Len(dash_df) = 3

\* C14: each step either leaves the list of records as it is or appends
\* exactly one record at its end, leaving the records before it unchanged; the
\* date of the loop never goes back; the Date field is non-decreasing along
\* the list, so a record with a larger Order_ID never has an earlier Date; and
\* the four aggregation passes change neither the list nor the returned
\* dataset.
C14_AppendOnly ==
    /\ [][\A r \in Runs :
              /\ \/ data'[r] = data[r]
                 \/ /\ Len(data'[r]) = Len(data[r]) + 1
                    /\ SubSeq(data'[r], 1, Len(data[r])) = data[r]
              /\ day'[r] >= day[r]
              /\ pc[r] \in {"customers", "products", "reps", "months"}
                    => /\ data'[r] = data[r]
                       /\ df'[r] = df[r]
                       /\ df[r] = data[r]]_vars
    /\ [](\A r \in Runs : \A j, k \in 1..Len(data[r]) :
              (j < k /\ OrderNumber(data[r][j]) < OrderNumber(data[r][k]))
                 => StrLeq(Get(data[r][j], "Date"), Get(data[r][k], "Date")))

\* A finished run whose list holds two records of one date followed by a
\* record of the next date.
C14_Witness ==
    /\ pc[1] = "done"
    /\ Len(data[1]) >= 3
    /\ \E k \in 1..(Len(data[1]) - 2) :
          /\ Get(data[1][k], "Date") = FormatDate(dates(1))
          /\ Get(data[1][k + 1], "Date") = FormatDate(dates(1))
          /\ Get(data[1][k + 2], "Date") = FormatDate(dates(2))
    /\ df[1] = data[1]
    /\ monthly_data[1] /= <<>>

====
